---- MODULE Spec2Model ----
(***************************************************************************)
(* File-backed key/value stores (ClineFileStorage) and the one-time        *)
(* migration from the VSCode ExtensionContext storage into them            *)
(* (migrateVSCodeStorageToFiles).                                          *)
(*                                                                         *)
(* Values are coded as integers: undefined is -1, the empty string is 0,   *)
(* every other value is a positive number.  An in-memory mapping (a JS     *)
(* object) is a function whose domain is the set of keys it holds.         *)
(*                                                                         *)
(* The module also covers the gRPC client of the CredentialService         *)
(* (getClient, getServerCredentials, resetCredentialClient) and the        *)
(* VSCode host-bridge stubs of that service.                               *)
(***************************************************************************)
EXTENDS Integers, Sequences, FiniteSets, TLC

\* ------------------------------------------------------------------ bounds

\* Values other than undefined and "" are 1..MaxVal.
MaxVal == 2

\* Injected faults (a legacy read that throws, a file write that fails) per behaviour.
MaxFaults == 2

\* Changes made to the legacy storage by its owner between migrate calls.
MaxLegacyChanges == 1

\* gRPC channels the credential client creates per behaviour.
MaxChannels == 2

\* ------------------------------------------------------------------ values

undefined == -1

EmptyString == 0

Values == 1..MaxVal

CURRENT_MIGRATION_VERSION == 1

MIGRATION_VERSION_KEY == "__migrationVersion"

\* The three fixed key lists of state-keys (iterated in order by the loops).
GlobalStateAndSettingKeys == <<"g1">>

SecretKeys == <<"s1", "s2">>

LocalStateKeys == <<"w1">>

Domains == {"globalState", "secrets", "workspaceState"}

Range(seq) == {seq[i] : i \in 1..Len(seq)}

KeysOf(dom) ==
    IF dom = "globalState" THEN Range(GlobalStateAndSettingKeys)
    ELSE IF dom = "secrets" THEN Range(SecretKeys)
    ELSE Range(LocalStateKeys)

\* Every key a store of domain dom can hold in this model.
StoreKeys(dom) ==
    IF dom = "globalState" THEN KeysOf(dom) \cup {MIGRATION_VERSION_KEY} ELSE KeysOf(dom)

\* ------------------------------------------------------------------ mappings

EmptyMap == [k \in {} |-> undefined]

\* this.data[key]
_get(m, key) == IF key \in DOMAIN m THEN m[key] ELSE undefined

Put(m, key, value) == [k \in (DOMAIN m) \cup {key} |-> IF k = key THEN value ELSE m[k]]

\* delete this.data[key]
Remove(m, key) == [k \in (DOMAIN m) \ {key} |-> m[k]]

\* The in-memory part of _set: undefined deletes, anything else is stored.
Assign(m, key, value) == IF value = undefined THEN Remove(m, key) ELSE Put(m, key, value)

\* The value null, which JSON.parse gives for the text "null" (it holds no key;
\* no mapping of a store holds undefined for a key).
null == [k \in {"null"} |-> undefined]

\* this.data[key], key in this.data, delete this.data[key] and
\* this.data[key] = value all throw a TypeError when this.data is null.
TypeError(m) == m = null

\* ------------------------------------------------------------------ files

\* A backing file is missing, holds text JSON.parse rejects (also: cannot be
\* read), or holds the JSON text of a value: of an object, or of null.
Missing == [kind |-> "missing", obj |-> EmptyMap]

Garbage == [kind |-> "garbage", obj |-> EmptyMap]

\* JSON.stringify(this.data, null, 2): the text of the whole mapping.
JSONstringify(m) == [kind |-> "json", obj |-> m]

\* Mutant: readFromDisk ignores the file.
readFromDisk_Empty(f) == EmptyMap

\* readFromDisk: whatever JSON.parse returns for the file's text, or {} when the
\* file is missing or the read or the parse throws.
readFromDisk(f) == IF f.kind = "json" THEN f.obj ELSE EmptyMap

\* writeToDisk: outcome "ok" replaces the file by the text of the whole mapping;
\* "failed" is a throw of mkdirSync or of writeFileSync's open (file untouched);
\* "truncated" is a throw of writeFileSync after the open truncated the file.
\* Every throw is caught and logged.
WriteOutcomes == {"ok", "failed", "truncated"}

writeToDisk(m, f, outcome) ==
    IF outcome = "ok" THEN JSONstringify(m)
    ELSE IF outcome = "failed" THEN f
    ELSE Garbage

\* ------------------------------------------------------------------ store methods

\* Each method takes the store's mapping m and file f and gives both after the call.

\* Mutant: _set persists before it changes the mapping.
_set_WriteFirst(m, f, key, value, outcome) ==
    [data |-> Assign(m, key, value), file |-> writeToDisk(m, f, outcome)]

\* _set(key, value): change this.data, then writeToDisk().
_set(m, f, key, value, outcome) ==
    LET d == Assign(m, key, value)
    IN  [data |-> d, file |-> writeToDisk(d, f, outcome)]

\* Mutant: _delete persists the file's mapping without the key, not this.data.
_delete_Patch(m, f, key, outcome) ==
    [data |-> Remove(m, key), file |-> writeToDisk(Remove(readFromDisk(f), key), f, outcome)]

\* _delete(key): delete this.data[key], then writeToDisk().
_delete(m, f, key, outcome) ==
    LET d == Remove(m, key)
    IN  [data |-> d, file |-> writeToDisk(d, f, outcome)]

\* Mutant: setBatch's flag is always set.
BatchChanged_Always(m, entries) == TRUE

\* setBatch's flag: an entry with a value, or a deletion of a key the mapping holds.
BatchChanged(m, entries) ==
    \E key \in DOMAIN entries : entries[key] # undefined \/ key \in DOMAIN m

\* this.data after setBatch's loop over the entries.
BatchData(m, entries) ==
    LET deleted == {key \in DOMAIN entries : entries[key] = undefined}
        written == (DOMAIN entries) \ deleted
    IN  [k \in ((DOMAIN m) \ deleted) \cup written |->
            IF k \in written THEN entries[k] ELSE m[k]]

\* setBatch(entries): if the flag is set, one writeToDisk() and one fire(key)
\* for every key of entries; neither otherwise.
setBatch(m, f, entries, outcome) ==
    LET d == BatchData(m, entries)
    IN  IF BatchChanged(m, entries)
        THEN [data |-> d, file |-> writeToDisk(d, f, outcome), write |-> outcome,
              fired |-> DOMAIN entries]
        ELSE [data |-> d, file |-> f, write |-> "none", fired |-> {}]

\* ------------------------------------------------------------------ state

VARIABLES
    legacy,          \* vscodeContext: [Domains -> mapping], the ExtensionContext storage
    data,            \* storage: [Domains -> mapping], this.data of each destination store
    file,            \* [Domains -> file], the backing file of each destination store
    pc,              \* position of the migrate call
    idx,             \* index of the key the current loop is at
    result,          \* the MigrationResult of the call
    failed,          \* secret keys whose legacy read threw in this call
    visited,         \* <<domain, key>> of the keys the loops of this call have reached
    pre,             \* data when the call started
    missed,          \* key -> legacy value the last run left uncopied
    returnedBefore,  \* an earlier migrate call returned a result
    lastThrew,       \* the migrate call before this one threw
    faults,          \* faults injected so far
    changes,         \* legacy changes made so far
    lastCall,        \* the last call made on the store under test
    otherData,       \* this.data of another process's store on the globalState file
    otherWrote,      \* key -> value the other process's last successful write held
    credentialClient,   \* the cached gRPC client: NoClient (null) or the number of its channel
    channels,           \* the address of every channel created so far, in order of creation
    closed,             \* the channels resetCredentialClient has closed
    hostBridgeAddress,  \* process.env.HOST_BRIDGE_ADDRESS
    call,               \* the latest getServerCredentials call of the client and its promise
    keychain,           \* serverName -> env held by the broker (the host bridge)
    hostCredentials,    \* serverName -> env held by the VSCode host
    hostReply           \* the reply of the latest call of a VSCode host-bridge stub

\* The variables of the credential client, of the broker and of the stubs.
brokerVars ==
    <<credentialClient, channels, closed, hostBridgeAddress, call, keychain, hostCredentials,
      hostReply>>

\* The variables the migrate call does not touch.
clientVars == <<lastCall, otherData, otherWrote, brokerVars>>

vars ==
    <<legacy, data, file, pc, idx, result, failed, visited, pre, missed, returnedBefore,
      lastThrew, faults, changes, lastCall, otherData, otherWrote, brokerVars>>

\* No call was made on the store under test yet.
NoCall ==
    [op |-> "none", entries |-> EmptyMap, write |-> "none", inSyncBefore |-> TRUE,
     fired |-> {}, threw |-> FALSE, changed |-> FALSE]

ZeroResult ==
    [migrated |-> FALSE, globalStateCount |-> 0, secretsCount |-> 0,
     workspaceStateCount |-> 0, skippedExisting |-> 0]

Ended == {"returned", "thrown"}

Idle == {"idle"} \cup Ended

\* ------------------------------------------------------------------ migration rules

\* Mutant: the sentinel check never skips.
AlreadyMigrated_Never(existingVersion) == FALSE

\* Mutant: the sentinel check skips only at exactly the current version.
AlreadyMigrated_Exact(existingVersion) == existingVersion = CURRENT_MIGRATION_VERSION

\* existingVersion !== undefined && existingVersion >= CURRENT_MIGRATION_VERSION
AlreadyMigrated(existingVersion) ==
    existingVersion # undefined /\ existingVersion >= CURRENT_MIGRATION_VERSION

\* The loops' test of the value read from VSCode: undefined, and "" for a secret.
LegacyAbsent(dom, vscodeValue) ==
    vscodeValue = undefined \/ (dom = "secrets" /\ vscodeValue = EmptyString)

\* Mutant: the loops do not look at the file store's value.
FileHasValue_Never(dom, existingFileValue) == FALSE

\* The loops' test of the file store's value: not undefined, and not "" for a secret.
FileHasValue(dom, existingFileValue) ==
    existingFileValue # undefined /\ (dom = "secrets" => existingFileValue # EmptyString)

\* What one loop iteration does with a key whose read returned vscodeValue.
Decision(dom, vscodeValue, existingFileValue) ==
    IF LegacyAbsent(dom, vscodeValue) THEN "continue"
    ELSE IF FileHasValue(dom, existingFileValue) THEN "skip"
    ELSE "write"

\* Mutant: the secrets loop counts into globalStateCount.
Counter_Swapped(dom) ==
    IF dom = "workspaceState" THEN "workspaceStateCount" ELSE "globalStateCount"

\* The counter each loop increments after a write.
Counter(dom) ==
    IF dom = "globalState" THEN "globalStateCount"
    ELSE IF dom = "secrets" THEN "secretsCount"
    ELSE "workspaceStateCount"

KeyList(dom) ==
    IF dom = "globalState" THEN GlobalStateAndSettingKeys
    ELSE IF dom = "secrets" THEN SecretKeys
    ELSE LocalStateKeys

\* Mutant: the sentinel is written before the workspace loop.
AfterLoop_SentinelEarly(dom) ==
    IF dom = "globalState" THEN "secrets"
    ELSE IF dom = "secrets" THEN "sentinel"
    ELSE "sentinel"

\* The statement after the loop over dom.
AfterLoop(dom) ==
    IF dom = "globalState" THEN "secrets"
    ELSE IF dom = "secrets" THEN "workspaceState"
    ELSE "sentinel"

\* Mutant: a key that was read is removed from the VSCode storage.
VscodeAfterGet_Moved(m, key) == Remove(m, key)

\* The loops use the VSCode storage only through get(key), which leaves it as it is.
VscodeAfterGet(m, key) == m

\* The secrets loop catches a throw of its read and goes on with the next key;
\* the other loops let it reach the outer catch, which rethrows.
ReadIsCaught_Never(dom) == FALSE

ReadIsCaught(dom) == dom = "secrets"

\* Mutant: the outer catch records the migration as done before it rethrows.
CatchFatal_WritesSentinel(m) == Put(m, MIGRATION_VERSION_KEY, CURRENT_MIGRATION_VERSION)

\* The outer catch: logs and rethrows, the store is left as it is.
CatchFatal(m) == m

\* ------------------------------------------------------------------ vocabulary of the properties

\* A key has a value: something other than undefined, and for a secret
\* other than the empty string (which the secrets loop treats as absent).
Present(dom, value) == value # undefined /\ ~(dom = "secrets" /\ value = EmptyString)

\* The keys the three loops visit, each with its domain.
MigratedKeys == UNION {{<<d, k>> : k \in KeysOf(d)} : d \in Domains}

\* Keys with a legacy value that the destination has no value for.
Uncopied(leg, dat) ==
    LET open == {p \in MigratedKeys : /\ Present(p[1], _get(leg[p[1]], p[2]))
                                        /\ ~Present(p[1], _get(dat[p[1]], p[2]))}
    IN  [p \in open |-> _get(leg[p[1]], p[2])]

\* ------------------------------------------------------------------ credential client

\* let credentialClient: any | null = null
NoClient == 0

\* The MCP server names credentials are asked for.
ServerNames == {"gmail", "slack"}

\* The env mappings a credential set can hold: none, or one variable.
Envs == {EmptyMap, [k \in {"TOKEN"} |-> 1]}

\* The values of process.env.HOST_BRIDGE_ADDRESS: unset or empty, or an address.
EnvAddresses == {"", "bridge:1"}

DefaultAddress == "127.0.0.1:HOSTBRIDGE_PORT"

\* process.env.HOST_BRIDGE_ADDRESS || `127.0.0.1:${HOSTBRIDGE_PORT}`
ResolveAddress(env) == IF env = "" THEN DefaultAddress ELSE env

\* Mutant: getClient does not look at the cached client.
getClient_AlwaysNew(client, chans, env, creation) ==
    IF creation = "throws"
    THEN [client |-> client, channels |-> chans, threw |-> TRUE]
    ELSE [client |-> Len(chans) + 1, channels |-> Append(chans, ResolveAddress(env)),
          threw |-> FALSE]

\* getClient(): the cached client if there is one; otherwise the address is
\* resolved, the proto is loaded and a client is created and cached. creation
\* "throws" is a throw of loadSync, loadPackageDefinition or the constructor,
\* which leaves credentialClient null.
getClient(client, chans, env, creation) ==
    IF client # NoClient
    THEN [client |-> client, channels |-> chans, threw |-> FALSE]
    ELSE IF creation = "throws"
    THEN [client |-> NoClient, channels |-> chans, threw |-> TRUE]
    ELSE [client |-> Len(chans) + 1, channels |-> Append(chans, ResolveAddress(env)),
          threw |-> FALSE]

\* What the callback of a request is handed: an error of the transport, an
\* error status of the broker, a response, or a response that holds no env.
Answers == {"transportError", "brokerError", "response", "noEnv"}

\* Mutant: a throw of getClient is not caught.
Settle_NoCatch(outcome, env) ==
    IF outcome = "createThrows" THEN [state |-> "rejected", value |-> EmptyMap]
    ELSE IF outcome = "response" THEN [state |-> "resolved", value |-> env]
    ELSE [state |-> "resolved", value |-> EmptyMap]

\* What the promise of getServerCredentials settles to: resolve({}) in the
\* catch and for err in the callback, resolve(response?.env || {}) otherwise.
Settle(outcome, env) ==
    IF outcome = "createThrows" THEN [state |-> "resolved", value |-> EmptyMap]
    ELSE IF outcome \in {"transportError", "brokerError"}
    THEN [state |-> "resolved", value |-> EmptyMap]
    ELSE IF outcome = "noEnv" THEN [state |-> "resolved", value |-> EmptyMap]
    ELSE [state |-> "resolved", value |-> env]

\* No getServerCredentials call was made yet.
NoCallYet ==
    [state |-> "none", serverName |-> "", channel |-> NoClient, outcome |-> "none",
     value |-> EmptyMap, afterError |-> FALSE]

\* ------------------------------------------------------------------ VSCode host-bridge stubs

\* EmptyRequest.create({})
EmptyRequest == EmptyMap

\* Mutant: the stub stores the credential set.
storeServerCredentials_Stores(held, request) ==
    [held |-> Put(held, request.serverName, request.env), reply |-> EmptyRequest]

\* Each stub takes what the host holds and the request, and gives both what the
\* host holds after the call and the reply.
storeServerCredentials(held, request) == [held |-> held, reply |-> EmptyRequest]

deleteServerCredentials(held, request) == [held |-> held, reply |-> EmptyRequest]

\* ServerCredentials.create({ serverName: request.value, env: {} })
getServerCredentials(held, request) ==
    [held |-> held, reply |-> [serverName |-> request.value, env |-> EmptyMap]]

\* No stub was called yet.
NoReply == [op |-> "none", serverName |-> "", reply |-> EmptyRequest, made |-> {}]

\* The client is unconnected, no call was made, nothing is held.
InitBrokerVars ==
    /\ credentialClient = NoClient
    /\ channels = << >>
    /\ closed = {}
    /\ hostBridgeAddress = ""
    /\ call = NoCallYet
    /\ keychain = [n \in ServerNames |-> EmptyMap]
    /\ hostCredentials = EmptyMap
    /\ hostReply = NoReply

\* ------------------------------------------------------------------ initial states

\* What VSCode may hold for a key: nothing, the value 1, and for the first
\* secret key the empty string.
LegacyChoices(key) ==
    {undefined, 1} \cup (IF key = SecretKeys[1] THEN {EmptyString} ELSE {})

\* What another client may have written to the file store for a key: nothing,
\* the value MaxVal, and for the first secret key the empty string.
FileChoices(key) ==
    {undefined, MaxVal} \cup (IF key = SecretKeys[1] THEN {EmptyString} ELSE {})

\* The sentinel another client may have left: none, or the version of a
\* newer client (no client writes a version below 1).
SentinelChoices == {undefined, CURRENT_MIGRATION_VERSION + 1}

\* The functions that give every key of ks one of its choices.
LegacyContents(ks) ==
    {f \in [ks -> UNION {LegacyChoices(k) : k \in ks}] : \A k \in ks : f[k] \in LegacyChoices(k)}

FileContents(ks) ==
    {f \in [ks -> UNION {FileChoices(k) : k \in ks}] : \A k \in ks : f[k] \in FileChoices(k)}

\* The mapping that holds f[k] for the keys with a value and nothing else.
Holding(f) == [k \in {x \in DOMAIN f : f[x] # undefined} |-> f[k]]

\* The file a store with mapping m was constructed from.
FileOf(m) == IF m = EmptyMap THEN Missing ELSE JSONstringify(m)

InitMigrate ==
    /\ legacy \in {[d \in Domains |-> Holding(c[d])] :
                     c \in [globalState : LegacyContents(KeysOf("globalState")),
                            secrets : LegacyContents(KeysOf("secrets")),
                            workspaceState : LegacyContents(KeysOf("workspaceState"))]}
    /\ data \in {[d \in Domains |-> Holding(c[d])] :
                   c \in [globalState : {Put(g, MIGRATION_VERSION_KEY, v) :
                                            g \in FileContents(KeysOf("globalState")),
                                            v \in SentinelChoices},
                          secrets : FileContents(KeysOf("secrets")),
                          workspaceState : FileContents(KeysOf("workspaceState"))]}
    /\ file = [d \in Domains |-> FileOf(data[d])]
    /\ pc = "idle"
    /\ idx = 1
    /\ result = ZeroResult
    /\ failed = {}
    /\ visited = {}
    /\ pre = data
    /\ missed = Uncopied(legacy, legacy)
    /\ returnedBefore = FALSE
    /\ lastThrew = FALSE
    /\ changes = 0
    /\ lastCall = NoCall
    /\ otherWrote = EmptyMap
    /\ InitBrokerVars

\* One process: the stores were constructed from their files, no call made yet.
Init ==
    /\ InitMigrate
    /\ faults = 0
    /\ otherData = EmptyMap

\* ------------------------------------------------------------------ migrate

\* migrateVSCodeStorageToFiles is called: the result object is created.
MigrateStart ==
    /\ pc \in Idle
    /\ pc' = "check"
    /\ idx' = 1
    /\ result' = ZeroResult
    /\ failed' = {}
    /\ visited' = {}
    /\ pre' = data
    /\ returnedBefore' = (returnedBefore \/ pc = "returned")
    /\ lastThrew' = IF pc = "idle" THEN lastThrew ELSE pc = "thrown"
    /\ UNCHANGED <<legacy, data, file, missed, faults, changes, clientVars>>

\* The sentinel check: return the zero result, or enter the try block.
CheckSentinel ==
    /\ pc = "check"
    /\ pc' = IF AlreadyMigrated(_get(data["globalState"], MIGRATION_VERSION_KEY))
             THEN "returned" ELSE "globalState"
    /\ UNCHANGED <<legacy, data, file, idx, result, failed, visited, pre, missed,
                   returnedBefore, lastThrew, faults, changes, clientVars>>

\* One iteration of the loop over the keys of dom.
MigrateKey(dom) ==
    /\ pc = dom
    /\ \E throws \in BOOLEAN, outcome \in WriteOutcomes :
        LET key == KeyList(dom)[idx]
            vscodeValue == _get(legacy[dom], key)
            existingFileValue == _get(data[dom], key)
            todo == IF throws THEN "throw" ELSE Decision(dom, vscodeValue, existingFileValue)
            fatal == throws /\ ~ReadIsCaught(dom)
            last == idx = Len(KeyList(dom))
            fault == throws \/ outcome # "ok"
        IN  /\ (outcome # "ok") => (todo = "write")
            /\ fault => faults < MaxFaults
            /\ faults' = IF fault THEN faults + 1 ELSE faults
            /\ pc' = IF fatal THEN "thrown" ELSE IF last THEN AfterLoop(dom) ELSE dom
            /\ idx' = IF fatal \/ last THEN 1 ELSE idx + 1
            /\ data' = IF todo = "write"
                       THEN [data EXCEPT ![dom] = _set(@, file[dom], key, vscodeValue, outcome).data]
                       ELSE IF fatal THEN [data EXCEPT !["globalState"] = CatchFatal(@)]
                       ELSE data
            /\ file' = IF todo = "write"
                       THEN [file EXCEPT ![dom] = _set(data[dom], @, key, vscodeValue, outcome).file]
                       ELSE file
            /\ result' = IF todo = "write" THEN [result EXCEPT ![Counter(dom)] = @ + 1]
                         ELSE IF todo = "skip" THEN [result EXCEPT !.skippedExisting = @ + 1]
                         ELSE result
            /\ failed' = IF throws /\ ~fatal THEN failed \cup {key} ELSE failed
            /\ visited' = visited \cup {<<dom, key>>}
            /\ missed' = IF fatal THEN Uncopied(legacy, data) ELSE missed
            /\ legacy' = IF throws THEN legacy ELSE [legacy EXCEPT ![dom] = VscodeAfterGet(@, key)]
            /\ UNCHANGED <<pre, returnedBefore, lastThrew, changes, clientVars>>

MigrateGlobalKey == MigrateKey("globalState")

MigrateSecretKey == MigrateKey("secrets")

MigrateWorkspaceKey == MigrateKey("workspaceState")

\* storage.globalState.set(MIGRATION_VERSION_KEY, CURRENT_MIGRATION_VERSION); return result
WriteSentinel ==
    /\ pc = "sentinel"
    /\ \E outcome \in WriteOutcomes :
        /\ (outcome # "ok") => faults < MaxFaults
        /\ faults' = IF outcome # "ok" THEN faults + 1 ELSE faults
        /\ LET after == _set(data["globalState"], file["globalState"], MIGRATION_VERSION_KEY,
                             CURRENT_MIGRATION_VERSION, outcome)
           IN  /\ data' = [data EXCEPT !["globalState"] = after.data]
               /\ file' = [file EXCEPT !["globalState"] = after.file]
    /\ result' = [result EXCEPT !.migrated = TRUE]
    /\ pc' = "returned"
    /\ missed' = Uncopied(legacy, data)
    /\ UNCHANGED <<legacy, idx, failed, visited, pre, returnedBefore, lastThrew, changes,
                   clientVars>>

\* The owner of the VSCode storage (the extension's old code path) changes a
\* key of it between two migrate calls.
LegacyChange ==
    /\ pc \in Ended
    /\ changes < MaxLegacyChanges
    /\ changes' = changes + 1
    /\ \E dom \in Domains :
        \E key \in KeysOf(dom) :
            \E value \in LegacyChoices(key) :
                legacy' = [legacy EXCEPT ![dom] = Assign(@, key, value)]
    /\ pc' = "idle"
    /\ idx' = 1
    /\ result' = ZeroResult
    /\ failed' = {}
    /\ visited' = {}
    /\ pre' = data
    /\ returnedBefore' = (returnedBefore \/ pc = "returned")
    /\ lastThrew' = (pc = "thrown")
    /\ UNCHANGED <<data, file, missed, faults, clientVars>>

\* ------------------------------------------------------------------ one store and its client

\* The store whose methods the client calls (the three are instances of one class).
Tested == "secrets"

\* The values the client stores (the store treats every value alike).
StoreValues == Values

\* The mappings a store can hold over the keys ks.
Mappings(ks) == UNION {[s -> StoreValues] : s \in SUBSET ks}

\* The batches a client can pass: some keys, each with a value or undefined.
Batches(ks) == UNION {[s -> StoreValues \cup {undefined}] : s \in SUBSET ks}

\* What the backing file may hold when the process starts.
StoreFiles ==
    {Missing, Garbage, JSONstringify(null)}
        \cup {JSONstringify(m) : m \in Mappings(StoreKeys(Tested))}

InitStore ==
    /\ legacy = [d \in Domains |-> EmptyMap]
    /\ file \in {[d \in Domains |-> IF d = Tested THEN f ELSE Missing] : f \in StoreFiles}
    /\ data = [d \in Domains |-> readFromDisk(file[d])]
    /\ pc = "idle"
    /\ idx = 1
    /\ result = ZeroResult
    /\ failed = {}
    /\ visited = {}
    /\ pre = data
    /\ missed = Uncopied(legacy, legacy)
    /\ returnedBefore = FALSE
    /\ lastThrew = FALSE
    /\ faults = 0
    /\ changes = 0
    /\ lastCall = NoCall
    /\ otherData = EmptyMap
    /\ otherWrote = EmptyMap
    /\ InitBrokerVars

\* The file of the store under test holds the text of its mapping.
InSync == file[Tested] = JSONstringify(data[Tested])

migrateVars ==
    <<legacy, pc, idx, result, failed, visited, pre, missed, returnedBefore, lastThrew, changes>>

\* A call that throws a TypeError leaves the store and its file as they were.
Threw(op, entries) ==
    /\ lastCall' = [NoCall EXCEPT !.op = op, !.entries = entries, !.threw = TRUE,
                                  !.inSyncBefore = InSync]
    /\ UNCHANGED <<data, file, faults>>

\* The call left this.data different from what it was.
Changed(after) == after.data # data[Tested]

\* A file write that fails is a fault.
Fault(write) ==
    /\ (write \in {"failed", "truncated"}) => faults < MaxFaults
    /\ faults' = IF write \in {"failed", "truncated"} THEN faults + 1 ELSE faults

\* new ClineFileStorage(filePath): this.data = this.readFromDisk()
StoreConstruct ==
    /\ data' = [data EXCEPT ![Tested] = readFromDisk(file[Tested])]
    /\ lastCall' = [NoCall EXCEPT !.op = "construct", !.inSyncBefore = InSync]
    /\ UNCHANGED <<file, faults, migrateVars, otherData, otherWrote, brokerVars>>

\* get(key): the value held, undefined for a key not held.
StoreGet ==
    \E key \in StoreKeys(Tested) :
        /\ IF TypeError(data[Tested])
           THEN Threw("get", EmptyMap)
           ELSE /\ lastCall' = [NoCall EXCEPT !.op = "get",
                                              !.entries = Put(EmptyMap, key, _get(data[Tested], key)),
                                              !.inSyncBefore = InSync]
                /\ UNCHANGED <<data, file, faults>>
        /\ UNCHANGED <<migrateVars, otherData, otherWrote, brokerVars>>

\* set(key, value)
StoreSet ==
    \E key \in StoreKeys(Tested), value \in StoreValues \cup {undefined}, outcome \in WriteOutcomes :
        LET after == _set(data[Tested], file[Tested], key, value, outcome)
        IN  /\ IF TypeError(data[Tested])
               THEN Threw("set", Put(EmptyMap, key, value))
               ELSE /\ data' = [data EXCEPT ![Tested] = after.data]
                    /\ file' = [file EXCEPT ![Tested] = after.file]
                    /\ Fault(outcome)
                    /\ lastCall' = [NoCall EXCEPT !.op = "set",
                                                  !.entries = Put(EmptyMap, key, value),
                                                  !.write = outcome, !.inSyncBefore = InSync,
                                                  !.changed = Changed(after)]
            /\ UNCHANGED <<migrateVars, otherData, otherWrote, brokerVars>>

\* delete(key)
StoreDelete ==
    \E key \in StoreKeys(Tested), outcome \in WriteOutcomes :
        LET after == _delete(data[Tested], file[Tested], key, outcome)
        IN  /\ IF TypeError(data[Tested])
               THEN Threw("delete", Put(EmptyMap, key, undefined))
               ELSE /\ data' = [data EXCEPT ![Tested] = after.data]
                    /\ file' = [file EXCEPT ![Tested] = after.file]
                    /\ Fault(outcome)
                    /\ lastCall' = [NoCall EXCEPT !.op = "delete",
                                                  !.entries = Put(EmptyMap, key, undefined),
                                                  !.write = outcome, !.inSyncBefore = InSync,
                                                  !.changed = Changed(after)]
            /\ UNCHANGED <<migrateVars, otherData, otherWrote, brokerVars>>

\* setBatch(entries): the loop's first entry throws when this.data is null.
StoreSetBatch ==
    \E entries \in Batches(StoreKeys(Tested)), outcome \in WriteOutcomes :
        LET after == setBatch(data[Tested], file[Tested], entries, outcome)
        IN  /\ IF TypeError(data[Tested]) /\ DOMAIN entries # {}
               THEN Threw("setBatch", entries)
               ELSE /\ data' = [data EXCEPT ![Tested] = after.data]
                    /\ file' = [file EXCEPT ![Tested] = after.file]
                    /\ Fault(after.write)
                    /\ lastCall' = [NoCall EXCEPT !.op = "setBatch", !.entries = entries,
                                                  !.write = after.write, !.fired = after.fired,
                                                  !.inSyncBefore = InSync,
                                                  !.changed = Changed(after)]
            /\ UNCHANGED <<migrateVars, otherData, otherWrote, brokerVars>>

NextStore ==
    \/ StoreConstruct
    \/ StoreGet
    \/ StoreSet
    \/ StoreDelete
    \/ StoreSetBatch

SpecStore == InitStore /\ [][NextStore]_vars

\* ------------------------------------------------------------------ two processes, one file

\* A second process (another client) holds its own ClineFileStorage on the
\* globalState file; both instances were constructed from the file as it was.
\* No fault is injected: every read and every write succeeds.
InitRace ==
    /\ InitMigrate
    /\ faults = MaxFaults
    /\ otherData = readFromDisk(file["globalState"])

\* The other process calls set(key, value) on its instance.
OtherSet ==
    \E key \in StoreKeys("globalState"), value \in StoreValues :
        LET after == _set(otherData, file["globalState"], key, value, "ok")
        IN  /\ otherData' = after.data
            /\ file' = [file EXCEPT !["globalState"] = after.file]
            /\ otherWrote' = Put(otherWrote, key, value)
            /\ UNCHANGED <<data, faults, migrateVars, lastCall, brokerVars>>

\* The other process restarts: its instance is constructed from the file.
OtherConstruct ==
    /\ otherData' = readFromDisk(file["globalState"])
    /\ UNCHANGED <<data, file, faults, migrateVars, lastCall, otherWrote, brokerVars>>

Next ==
    \/ MigrateStart
    \/ CheckSentinel
    \/ MigrateGlobalKey
    \/ MigrateSecretKey
    \/ MigrateWorkspaceKey
    \/ WriteSentinel
    \/ LegacyChange

Spec == Init /\ [][Next]_vars

NextRace ==
    \/ Next
    \/ OtherSet
    \/ OtherConstruct

SpecRace == InitRace /\ [][NextRace]_vars

\* ------------------------------------------------------------------ credential client and broker

\* The variables of the stores and of migrate.
storageVars == <<data, file, faults, migrateVars, lastCall, otherData, otherWrote>>

\* The broker holds credentials for some server names; the stores are empty
\* and take no part.
InitBroker ==
    /\ legacy = [d \in Domains |-> EmptyMap]
    /\ data = [d \in Domains |-> EmptyMap]
    /\ file = [d \in Domains |-> Missing]
    /\ pc = "idle"
    /\ idx = 1
    /\ result = ZeroResult
    /\ failed = {}
    /\ visited = {}
    /\ pre = data
    /\ missed = Uncopied(legacy, legacy)
    /\ returnedBefore = FALSE
    /\ lastThrew = FALSE
    /\ faults = 0
    /\ changes = 0
    /\ lastCall = NoCall
    /\ otherData = EmptyMap
    /\ otherWrote = EmptyMap
    /\ credentialClient = NoClient
    /\ channels = << >>
    /\ closed = {}
    /\ hostBridgeAddress \in EnvAddresses
    /\ call = NoCallYet
    /\ keychain \in [ServerNames -> Envs]
    /\ hostCredentials = EmptyMap
    /\ hostReply = NoReply

\* getServerCredentials(serverName) of the client, up to the return of its
\* promise: getClient(), then the request is handed to the client, or the
\* throw of getClient is caught and the promise resolved.
GetServerCredentials ==
    /\ call.state # "pending"
    /\ \E serverName \in ServerNames, creation \in {"ok", "throws"} :
        LET got == getClient(credentialClient, channels, hostBridgeAddress, creation)
            caught == Settle("createThrows", EmptyMap)
            afterError == call.outcome = "transportError"
        IN  /\ Len(got.channels) <= MaxChannels
            /\ credentialClient' = got.client
            /\ channels' = got.channels
            /\ call' = IF got.threw
                       THEN [state |-> caught.state, serverName |-> serverName,
                             channel |-> NoClient, outcome |-> "createThrows",
                             value |-> caught.value, afterError |-> afterError]
                       ELSE [state |-> "pending", serverName |-> serverName,
                             channel |-> got.client, outcome |-> "none",
                             value |-> EmptyMap, afterError |-> afterError]
    /\ UNCHANGED <<closed, hostBridgeAddress, keychain, hostCredentials, hostReply, storageVars>>

\* The callback of client.getServerCredentials runs: the transport hands it
\* an error, or the broker's response.
Respond ==
    /\ call.state = "pending"
    /\ \E answer \in Answers :
        LET settled == Settle(answer, keychain[call.serverName])
        IN  call' = [call EXCEPT !.state = settled.state, !.value = settled.value,
                                 !.outcome = answer]
    /\ UNCHANGED <<credentialClient, channels, closed, hostBridgeAddress, keychain,
                   hostCredentials, hostReply, storageVars>>

\* resetCredentialClient(): a cached client is closed (a throw of close is
\* ignored) and dropped; nothing happens without one.
ResetCredentialClient ==
    /\ credentialClient # NoClient
    /\ closed' = closed \cup {credentialClient}
    /\ credentialClient' = NoClient
    /\ UNCHANGED <<channels, hostBridgeAddress, call, keychain, hostCredentials, hostReply,
                   storageVars>>

\* The host bridge restarts at another address: the environment variable changes.
ChangeAddress ==
    /\ \E address \in EnvAddresses \ {hostBridgeAddress} : hostBridgeAddress' = address
    /\ UNCHANGED <<credentialClient, channels, closed, call, keychain, hostCredentials,
                   hostReply, storageVars>>

\* The variables of the client and of the broker it talks to.
clientOnly == <<credentialClient, channels, closed, hostBridgeAddress, call, keychain>>

\* storeServerCredentials(request) of the VSCode host
StubStore ==
    /\ \E serverName \in ServerNames, env \in Envs :
        LET after == storeServerCredentials(hostCredentials,
                                            [serverName |-> serverName, env |-> env])
        IN  /\ hostCredentials' = after.held
            /\ hostReply' = [op |-> "store", serverName |-> serverName, reply |-> after.reply,
                             made |-> hostReply.made \cup {"store"}]
    /\ UNCHANGED <<clientOnly, storageVars>>

\* deleteServerCredentials(request) of the VSCode host
StubDelete ==
    /\ \E serverName \in ServerNames :
        LET after == deleteServerCredentials(hostCredentials, [value |-> serverName])
        IN  /\ hostCredentials' = after.held
            /\ hostReply' = [op |-> "delete", serverName |-> serverName, reply |-> after.reply,
                             made |-> hostReply.made \cup {"delete"}]
    /\ UNCHANGED <<clientOnly, storageVars>>

\* getServerCredentials(request) of the VSCode host
StubGet ==
    /\ \E serverName \in ServerNames :
        LET after == getServerCredentials(hostCredentials, [value |-> serverName])
        IN  /\ hostCredentials' = after.held
            /\ hostReply' = [op |-> "get", serverName |-> serverName, reply |-> after.reply,
                             made |-> hostReply.made \cup {"get"}]
    /\ UNCHANGED <<clientOnly, storageVars>>

NextBroker ==
    \/ GetServerCredentials
    \/ Respond
    \/ ResetCredentialClient
    \/ ChangeAddress
    \/ StubStore
    \/ StubDelete
    \/ StubGet

SpecBroker == InitBroker /\ [][NextBroker]_vars

\* The transport ends every request it was handed: with a response, an error
\* or its deadline.
SpecBrokerLive == SpecBroker /\ WF_vars(Respond)

\* ------------------------------------------------------------------ properties of migrate

Sentinel(dat) == _get(dat["globalState"], MIGRATION_VERSION_KEY)

LegacyValue(p) == _get(legacy[p[1]], p[2])

FileValue(p) == _get(data[p[1]], p[2])

PreValue(p) == _get(pre[p[1]], p[2])

\* The key's legacy read did not throw in this call.
ReadOk(p) == ~(p[1] = "secrets" /\ p[2] \in failed)

\* Keys with a value in the legacy source and in the destination before the call.
InBoth == {p \in MigratedKeys : Present(p[1], LegacyValue(p)) /\ Present(p[1], PreValue(p))}

\* Keys with a value in the legacy source and none in the destination before the call.
OnlyLegacy == {p \in MigratedKeys : Present(p[1], LegacyValue(p)) /\ ~Present(p[1], PreValue(p))}

WriteCounters ==
    result.globalStateCount + result.secretsCount + result.workspaceStateCount

\* A call that passed the sentinel check, ran the three loops and returned.
Completed == pc = "returned" /\ result.migrated

\* C1 as stated: a key with a value on both sides keeps its destination value,
\* adds one to skippedExisting and nothing to the write counters.
C1_Original ==
    /\ (pc # "idle") => \A p \in InBoth : FileValue(p) = PreValue(p)
    /\ Completed => /\ result.skippedExisting = Cardinality(InBoth)
                    /\ WriteCounters <= Cardinality(OnlyLegacy)

\* C1 amended: during and after a migrate call, a key with a value on both
\* sides keeps its destination value; and when the call returns a result, each
\* such key whose legacy read did not throw adds one to skippedExisting and
\* nothing to the write counters (a key whose read threw adds to no counter).
C1_NeverOverwrite ==
    /\ (pc # "idle") => \A p \in InBoth : FileValue(p) = PreValue(p)
    /\ Completed => /\ result.skippedExisting = Cardinality({p \in InBoth : ReadOk(p)})
                    /\ WriteCounters <= Cardinality(OnlyLegacy)

\* A completed call that met a secret on both sides whose read threw, and
\* a key on both sides whose read succeeded.
C1_Witness ==
    /\ Completed
    /\ \E p \in InBoth : ~ReadOk(p)
    /\ \E p \in InBoth : ReadOk(p) /\ FileValue(p) # LegacyValue(p)
    /\ result.skippedExisting >= 1

\* C2: when all reads succeed, every key with a legacy value and no destination
\* value before the call holds the legacy value after it, and the counter of
\* each domain counts exactly these keys.
C2_AdditiveOnly ==
    (Completed /\ failed = {}) =>
        /\ \A p \in OnlyLegacy : FileValue(p) = LegacyValue(p)
        /\ result.globalStateCount = Cardinality({p \in OnlyLegacy : p[1] = "globalState"})
        /\ result.secretsCount = Cardinality({p \in OnlyLegacy : p[1] = "secrets"})
        /\ result.workspaceStateCount = Cardinality({p \in OnlyLegacy : p[1] = "workspaceState"})

C2_Witness ==
    /\ Completed
    /\ failed = {}
    /\ result.globalStateCount = 1
    /\ result.secretsCount = 2
    /\ result.workspaceStateCount = 1

\* C3: once a migrate call has returned a result, no later step of a migrate
\* call changes a destination store or its file, no later call enters the
\* loops, and every later call returns the all-zero result, whatever the
\* legacy storage holds.
C3_Idempotent ==
    [][returnedBefore =>
          /\ data' = data
          /\ file' = file
          /\ pc' \in {"idle", "check", "returned"}
          /\ (pc' = "returned" => result' = ZeroResult)]_vars

\* A later call returned the zero result although the legacy storage, changed
\* since, holds a value the destination lacks.
C3_Witness ==
    /\ returnedBefore
    /\ pc = "returned"
    /\ changes = 1
    /\ DOMAIN Uncopied(legacy, data) # {}

\* The usual rules for the keys whose read did not throw, nothing for the others.
Isolated ==
    /\ Sentinel(data) = CURRENT_MIGRATION_VERSION
    /\ \A p \in MigratedKeys :
          IF ReadOk(p) /\ p \in OnlyLegacy
          THEN FileValue(p) = LegacyValue(p)
          ELSE FileValue(p) = PreValue(p)
    /\ result.skippedExisting = Cardinality({p \in InBoth : ReadOk(p)})
    /\ \A d \in Domains :
          result[Counter(d)] = Cardinality({p \in OnlyLegacy : p[1] = d /\ ReadOk(p)})

\* C4: a throw of a secret read never ends the call (the secrets loop goes on
\* to the next key or to the workspace loop), and a call that ran to its end
\* has written the sentinel, migrated every key whose read did not throw under
\* the usual rules, and left every failing key unwritten and uncounted.
C4_PartialFailureIsolation ==
    [][/\ (pc = "secrets") => (pc' \in {"secrets", "workspaceState"})
       /\ (pc' = "returned" /\ result'.migrated) => Isolated']_vars

\* Secret s1's read threw, s2 was migrated, and the call returned.
C4_Witness ==
    /\ Completed
    /\ failed = {SecretKeys[1]}
    /\ <<"secrets", SecretKeys[1]>> \in OnlyLegacy
    /\ result.secretsCount = 1
    /\ FileValue(<<"secrets", SecretKeys[2]>>) = LegacyValue(<<"secrets", SecretKeys[2]>>)

\* A step of the global or workspace loop whose legacy read threw: it spends
\* a fault and leaves the counters as they were.
FatalThrow ==
    /\ pc \in {"globalState", "workspaceState"}
    /\ faults' = faults + 1
    /\ result' = result

C6_SentinelMonotonic ==
    [][/\ Sentinel(data) # undefined => Sentinel(data') # undefined
       /\ Sentinel(data') >= Sentinel(data)]_vars

\* A call found a sentinel above the current version and left it there.
C6_Witness ==
    /\ pc = "returned"
    /\ Sentinel(data) > CURRENT_MIGRATION_VERSION
    /\ Sentinel(pre) = Sentinel(data)

\* C8 as stated: a legacy value the last run left uncopied because of a
\* failure is in the destination when the next call in which its read does
\* not throw returns, if the destination held no value for the key.
C8_RecoveredByNextRun ==
    [][(pc \notin Ended /\ pc' = "returned") =>
          \A p \in DOMAIN missed :
              (/\ ReadOk(p)'
               /\ LegacyValue(p)' = missed[p]
               /\ ~Present(p[1], PreValue(p)'))
              => FileValue(p)' = missed[p]]_vars

\* C17: no step of a migrate call (a call that is skipped, runs to its end or
\* throws) changes the legacy storage; only its owner does.
C17_LegacyUntouched ==
    [][(changes' = changes) => legacy' = legacy]_vars

\* A call threw, the next one ran to its end and wrote keys, and the legacy
\* storage still holds every value it held.
C17_Witness ==
    /\ Completed
    /\ lastThrew
    /\ changes = 0
    /\ WriteCounters >= 2
    /\ \A p \in MigratedKeys : LegacyValue(p) # undefined

Loops == {"globalState", "secrets", "workspaceState"}

\* C19: the sentinel changes only in the step that ends a call whose loops
\* have reached every key of the three key sets, and that call returns
\* migrated = true; a call returns migrated = true only through that step; and
\* a destination store changes only inside the loops or in that step.
C19_SentinelLast ==
    [][/\ (Sentinel(data') # Sentinel(data)) =>
             /\ pc = "sentinel"
             /\ visited = MigratedKeys
             /\ pc' = "returned"
             /\ result'.migrated
       /\ (pc' = "returned") => (result'.migrated <=> pc = "sentinel")
       /\ (pc = "sentinel") => Sentinel(data') = CURRENT_MIGRATION_VERSION
       /\ (data' # data) => pc \in Loops \cup {"sentinel"}
       /\ (pc' = "sentinel") => (pc = "workspaceState" /\ visited' = MigratedKeys)]_vars

\* A call wrote keys in its loops, met a secret read that threw, and then
\* wrote the sentinel.
C19_Witness ==
    /\ Completed
    /\ visited = MigratedKeys
    /\ failed # {}
    /\ Sentinel(data) = CURRENT_MIGRATION_VERSION
    /\ Sentinel(pre) = undefined
    /\ result.workspaceStateCount = 1

\* ------------------------------------------------------------------ properties of two processes

\* The file of the globalState store holds value for key.
FileHolds(f, key, value) == f.kind = "json" /\ _get(f.obj, key) = value

\* C7 as stated: no step of the migrating process replaces or removes, in the
\* file, a value the other process has persisted there.
C7_RaceSafe ==
    [][(pc' # pc \/ idx' # idx) =>
          \A key \in DOMAIN otherWrote :
              FileHolds(file["globalState"], key, otherWrote[key])
              => FileHolds(file'["globalState"], key, otherWrote[key])]_vars

\* ------------------------------------------------------------------ properties of a store

MutatingOps == {"set", "delete", "setBatch"}

PersistFailed == lastCall.write \in {"failed", "truncated"}

\* C9 as stated: after set, delete or setBatch returned without a persist
\* failure, the file holds the serialization of the in-memory mapping.
C9_Original ==
    (lastCall.op \in MutatingOps /\ ~PersistFailed) => InSync

\* C9 amended: after set or delete, or a setBatch holding at least one value or
\* one deletion of a key the store held, returned without a persist failure,
\* the file holds the serialization of the in-memory mapping.
C9_WriteThrough ==
    [][(/\ lastCall'.op \in MutatingOps
        /\ ~PersistFailed'
        /\ lastCall'.op = "setBatch" =>
              \E key \in DOMAIN lastCall'.entries :
                  lastCall'.entries[key] # undefined \/ key \in DOMAIN data[Tested])
       => InSync']_vars

\* A batch brought the file back in line with the mapping after a state in
\* which the two differed (a failed persist, or an unparsable or missing file).
C9_Witness ==
    /\ lastCall.op = "setBatch"
    /\ lastCall.write = "ok"
    /\ ~lastCall.inSyncBefore
    /\ InSync

\* C10 as stated: after a call whose file write failed, get returns what the
\* call set (undefined for a deleted key) and the file holds what it held
\* before the call.
C10_PersistFailureSwallowed ==
    [][PersistFailed' =>
          /\ \A key \in DOMAIN lastCall'.entries :
                _get(data'[Tested], key) = lastCall'.entries[key]
          /\ file'[Tested] = file[Tested]]_vars

\* A setBatch call that returned.
BatchReturned == lastCall.op = "setBatch" /\ ~lastCall.threw

\* C11 as stated: a setBatch whose entries change the store makes exactly one
\* file write, get then returns the batch's value for every key of the batch,
\* and the file holds the whole mapping after the batch or what it held before.
C11_BatchAtomicity ==
    [][(BatchReturned' /\ lastCall'.changed) =>
          /\ lastCall'.write \in WriteOutcomes
          /\ \A key \in DOMAIN lastCall'.entries :
                _get(data'[Tested], key) = lastCall'.entries[key]
          /\ file'[Tested] \in {JSONstringify(data'[Tested]), file[Tested]}]_vars

\* C12 as stated: setBatch writes the file and fires notifications exactly
\* when an entry changed the in-memory mapping.
C12_Original ==
    BatchReturned =>
        /\ (lastCall.write # "none") <=> lastCall.changed
        /\ (lastCall.fired # {}) <=> lastCall.changed

\* C12 amended: setBatch writes the file (once) and fires one notification for
\* every key of the batch exactly when an entry holds a value other than
\* undefined or deletes a key the store held; it does so also when every such
\* value is the one already held, and does neither for an empty batch or one
\* that only deletes absent keys.
C12_PersistsOnFlag ==
    [][BatchReturned' =>
          LET m == data[Tested]
              entries == lastCall'.entries
              flag == \E key \in DOMAIN entries :
                          entries[key] # undefined \/ _get(m, key) # undefined
          IN  /\ (lastCall'.write # "none") <=> flag
              /\ lastCall'.fired = IF flag THEN DOMAIN entries ELSE {}
              /\ lastCall'.changed => flag]_vars

\* A batch that set keys to the values they held was written and notified.
C12_Witness ==
    /\ BatchReturned
    /\ ~lastCall.changed
    /\ lastCall.write = "ok"
    /\ Cardinality(lastCall.fired) = 2

C14_NeverRaises ==
    /\ (lastCall.op = "construct") =>
          /\ data[Tested] \in Mappings(StoreKeys(Tested))
          /\ data[Tested] \in {readFromDisk(file[Tested]), EmptyMap}
    /\ (lastCall.op \in {"get", "set"}) => ~lastCall.threw

\* C20: whatever writes failed before, a call whose file write succeeds
\* leaves the file holding the serialization of the whole in-memory mapping.
C20_RecoveryAfterFailedPersists ==
    [][(lastCall'.write = "ok") => InSync']_vars

\* After MaxFaults failed writes had left the file behind the mapping, the
\* write of a delete succeeded and the file holds the mapping again.
C20_Witness ==
    /\ lastCall.op = "delete"
    /\ lastCall.write = "ok"
    /\ faults = MaxFaults
    /\ ~lastCall.inSyncBefore
    /\ data[Tested] # EmptyMap
    /\ InSync

\* ------------------------------------------------------------------ properties of the credential client

CallStarts == call.state # "pending" /\ call' # call

\* The address a channel created now connects to.
AddressNow == IF hostBridgeAddress = "" THEN DefaultAddress ELSE hostBridgeAddress

\* C16: the handle starts unconnected; a call made while unconnected creates
\* one channel at the address resolved at that moment and caches it, or
\* creates none and leaves the handle unconnected when creation throws; a call
\* made while connected uses the cached channel and creates none; no other
\* step creates a channel; and the handle leaves a channel only by a reset,
\* which closes it.
C16_ClientStateMachine ==
    /\ credentialClient = NoClient
    /\ [][/\ (CallStarts /\ credentialClient = NoClient) =>
                IF call'.outcome = "createThrows"
                THEN credentialClient' = NoClient /\ channels' = channels
                ELSE /\ channels' = Append(channels, AddressNow)
                     /\ credentialClient' = Len(channels')
                     /\ call'.channel = credentialClient'
          /\ (CallStarts /\ credentialClient # NoClient) =>
                /\ credentialClient' = credentialClient
                /\ channels' = channels
                /\ call'.channel = credentialClient
          /\ (channels' # channels) => (CallStarts /\ credentialClient = NoClient)
          /\ (credentialClient' # credentialClient) =>
                \/ CallStarts /\ credentialClient = NoClient
                \/ /\ credentialClient' = NoClient
                   /\ closed' = closed \cup {credentialClient}
                   /\ call' = call]_vars

\* After a call that ended in a transport error, a reset and a change of the
\* address, the next call created a second channel at the new address.
C16_Witness ==
    /\ Len(channels) = 2
    /\ channels[1] # channels[2]
    /\ closed = {1}
    /\ credentialClient = 2
    /\ call.state = "pending"
    /\ call.channel = 2
    /\ call.afterError

\* C18: a call of a VSCode host-bridge stub changes nothing the host, the
\* client or the stores hold; store and delete reply with the empty message,
\* and get replies with the requested server name and an empty env.
C18_DegradedNoOps ==
    [][(hostReply' # hostReply \/ hostCredentials' # hostCredentials) =>
          /\ hostCredentials' = hostCredentials
          /\ UNCHANGED <<clientOnly, storageVars>>
          /\ (hostReply'.op \in {"store", "delete"}) => hostReply'.reply = EmptyMap
          /\ (hostReply'.op = "get") =>
                hostReply'.reply = [serverName |-> hostReply'.serverName, env |-> EmptyMap]]_vars

\* After store and delete calls, get replied with the name asked for and no env.
C18_Witness ==
    /\ hostReply.op = "get"
    /\ hostReply.made = {"store", "delete", "get"}
    /\ hostReply.serverName = "slack"
    /\ hostReply.reply.serverName = "slack"
    /\ hostReply.reply.env = EmptyMap
    /\ hostCredentials = EmptyMap

====
